---- MODULE Spec2Model ----
(***************************************************************************)
(* Model of package qascsv (src/qascsv.go): the QASphereCSV engine that    *)
(* validates test cases, accumulates them per folder path and projects     *)
(* them to a CSV grid.                                                     *)
(*                                                                         *)
(* A Go string is modelled as a sequence of one-character strings, so      *)
(* that length, joining, byte order, quoting and formatting are computed  *)
(* rather than assumed: "root" is <<"r","o","o","t">>, "" is <<>>.         *)
(***************************************************************************)
EXTENDS Integers, Sequences, FiniteSets, TLC

VARIABLES folderTCaseMap, numTCases, maxSteps, call, err, rows, out, accepted, file

vars == <<folderTCaseMap, numTCases, maxSteps, call, err, rows, out, accepted, file>>

acc == <<folderTCaseMap, numTCases, maxSteps>>

-----------------------------------------------------------------------------
(* Bounds of the exploration.                                              *)

\* most records an engine holds
MaxTCases == 2

\* longest batch handed to AddTestCases
MaxBatch == 2

\* most records an engine holds in the validation-rule exploration
MaxHeld == 2

\* most records an engine holds in the exploration of the file export
MaxStored == 3

-----------------------------------------------------------------------------
(* Strings.                                                                *)

\* the printable ASCII characters, in byte order from 32 (space) to 126 (~);
\* byte 96 is spelled out, as the tests of the package spell it
Printable ==
  <<" ", "!", "\"", "#", "$", "%", "&", "'", "(", ")", "*", "+", ",", "-", ".", "/",
    "0", "1", "2", "3", "4", "5", "6", "7", "8", "9", ":", ";", "<", "=", ">", "?",
    "@", "A", "B", "C", "D", "E", "F", "G", "H", "I", "J", "K", "L", "M", "N", "O",
    "P", "Q", "R", "S", "T", "U", "V", "W", "X", "Y", "Z", "[", "\\", "]", "^", "_",
    "BACKTICK", "a", "b", "c", "d", "e", "f", "g", "h", "i", "j", "k", "l", "m", "n", "o",
    "p", "q", "r", "s", "t", "u", "v", "w", "x", "y", "z", "{", "|", "}", "~">>

\* the byte value of every character of the model
ByteTable ==
  [c \in {Printable[i] : i \in 1..Len(Printable)} \cup {"\n", "\r"} |->
     IF c = "\n" THEN 10
     ELSE IF c = "\r" THEN 13
     ELSE 31 + (CHOOSE i \in 1..Len(Printable) : Printable[i] = c)]

Byte(c) == ByteTable[c]

\* Go's < on strings: byte-wise lexicographic, a proper prefix sorts first
StrLess(a, b) ==
  LET n == IF Len(a) < Len(b) THEN Len(a) ELSE Len(b)
      differ == {i \in 1..n : a[i] # b[i]}
  IN IF differ = {} THEN Len(a) < Len(b)
     ELSE LET d == CHOOSE i \in differ : \A j \in differ : i <= j
          IN Byte(a[d]) < Byte(b[d])

\* the concatenation of a sequence of sequences, in order
RECURSIVE Flatten(_)
Flatten(ss) ==
  IF ss = <<>> THEN <<>>
  ELSE IF Len(ss) = 1 THEN ss[1]
  ELSE LET half == Len(ss) \div 2
       IN Flatten(SubSeq(ss, 1, half)) \o Flatten(SubSeq(ss, half + 1, Len(ss)))

\* strings.Join(elems, sep)
Join(elems, sep) ==
  IF elems = <<>> THEN <<>>
  ELSE Flatten([i \in 1..(2 * Len(elems) - 1) |->
         IF i % 2 = 1 THEN elems[(i + 1) \div 2] ELSE sep])

\* strings.ContainsAny(s, chars) for a set of characters
Contains(s, chars) == \E i \in 1..Len(s) : s[i] \in chars

\* strings.ToLower on ASCII
ToLowerChar(c) ==
  IF Byte(c) >= 65 /\ Byte(c) <= 90 THEN Printable[Byte(c) + 32 - 31] ELSE c

ToLower(s) == [i \in 1..Len(s) |-> ToLowerChar(s[i])]

\* a string of n copies of the character c
Rep(c, n) == [i \in 1..n |-> c]

\* strconv.Itoa for n >= 0, as fmt's %d prints it
RECURSIVE Itoa(_)
Itoa(n) ==
  IF n < 10 THEN <<Printable[17 + n]>>
  ELSE Itoa(n \div 10) \o <<Printable[17 + (n % 10)]>>

\* strconv.FormatBool
FormatBool(b) == IF b THEN <<"t", "r", "u", "e">> ELSE <<"f", "a", "l", "s", "e">>

\* has s the prefix p
HasPrefix(s, p) == Len(s) >= Len(p) /\ SubSeq(s, 1, Len(p)) = p

-----------------------------------------------------------------------------
(* Field validation: the `validate` struct tags, as validator.Struct       *)
(* evaluates them. A field's tags run left to right and the first failing  *)
(* tag is the field's error; `omitempty` ends the field's tags on an empty *)
(* value; `dive` applies the remaining tags to every element.              *)

\* one validator.FieldError: the field (with the element index and the nested
\* field, -1 and "" when there is none) and the tag that failed
FieldError(field, index, sub, tag) ==
  [field |-> field, index |-> index, sub |-> sub, tag |-> tag]

\* the error of a field whose tags, in order, are checks = <<tag, passes>>...
FirstFailure(field, index, sub, checks) ==
  LET failing == {i \in 1..Len(checks) : ~checks[i][2]}
  IN IF failing = {} THEN <<>>
     ELSE LET first == CHOOSE i \in failing : \A j \in failing : i <= j
          IN <<FieldError(field, index, sub, checks[first][1])>>

\* the host part of the text that follows "scheme://": up to the first / ? or #
HostOf(rest) ==
  LET ends == {i \in 1..Len(rest) : rest[i] \in {"/", "?", "#"}}
  IN IF ends = {} THEN rest
     ELSE SubSeq(rest, 1, (CHOOSE i \in ends : \A j \in ends : i <= j) - 1)

\* IsHTTPURL without the test of the scheme: any scheme://host passes
IsURLOfAnyScheme(s) ==
  \E i \in 1..Len(s) :
    /\ i + 3 <= Len(s)
    /\ SubSeq(s, i, i + 2) = <<":", "/", "/">>
    /\ i > 1
    /\ HostOf(SubSeq(s, i + 3, Len(s))) # <<>>

\* tag http_url: the lower-cased value parses as a URL of scheme http or
\* https with a non-empty host
IsHTTPURL(s) ==
  LET l == ToLower(s)
      http == <<"h", "t", "t", "p", ":", "/", "/">>
      https == <<"h", "t", "t", "p", "s", ":", "/", "/">>
      rest == IF HasPrefix(l, http) THEN SubSeq(l, Len(http) + 1, Len(l))
              ELSE SubSeq(l, Len(https) + 1, Len(l))
  IN /\ HasPrefix(l, http) \/ HasPrefix(l, https)
     /\ HostOf(rest) # <<>>
     /\ ~Contains(l, {" ", "\n", "\r"})

\* Requirement's tags
validateRequirement(r, field, index) ==
  FirstFailure(field, index, "Title",
    << <<"required_without", r.Title # <<>> \/ r.URL # <<>> >>,
       <<"max", Len(r.Title) <= 255>> >>)
  \o
  FirstFailure(field, index, "URL",
    << <<"required_without", r.URL # <<>> \/ r.Title # <<>> >> >>
    \o (IF r.URL = <<>> THEN <<>>
        ELSE << <<"http_url", IsHTTPURL(r.URL)>>,
                <<"max", Len(r.URL) <= 255>> >>))

\* Link's tags
validateLink(l, field, index) ==
  FirstFailure(field, index, "Title",
    << <<"required", l.Title # <<>> >>,
       <<"max", Len(l.Title) <= 255>> >>)
  \o
  FirstFailure(field, index, "URL",
    << <<"required", l.URL # <<>> >>,
       <<"http_url", IsHTTPURL(l.URL)>>,
       <<"max", Len(l.URL) <= 255>> >>)

\* File's tags
validateFile(f, field, index) ==
  FirstFailure(field, index, "Name",
    << <<"required", f.Name # <<>> >> >>)
  \o
  FirstFailure(field, index, "ID",
    << <<"required_without", f.ID # <<>> \/ f.URL # <<>> >> >>)
  \o
  FirstFailure(field, index, "URL",
    << <<"required_without", f.URL # <<>> \/ f.ID # <<>> >> >>
    \o (IF f.URL = <<>> THEN <<>>
        ELSE << <<"http_url", IsHTTPURL(f.URL)>> >>))

\* TestCase's tags, field by field in declaration order
validateStruct(tc) ==
  FirstFailure("Title", -1, "",
    << <<"required", tc.Title # <<>> >>,
       <<"max", Len(tc.Title) <= 255>> >>)
  \o
  FirstFailure("LegacyID", -1, "",
    << <<"max", Len(tc.LegacyID) <= 255>> >>)
  \o
  (IF Len(tc.Folder) < 1 THEN <<FieldError("Folder", -1, "", "min")>>
   ELSE Flatten([i \in 1..Len(tc.Folder) |->
          FirstFailure("Folder", i - 1, "",
            << <<"required", tc.Folder[i] # <<>> >>,
               <<"max", Len(tc.Folder[i]) <= 127>>,
               <<"excludesall", ~Contains(tc.Folder[i], {"/"})>> >>)]))
  \o
  FirstFailure("Priority", -1, "",
    << <<"required", tc.Priority # <<>> >>,
       <<"oneof", tc.Priority \in {<<"l", "o", "w">>,
                                   <<"m", "e", "d", "i", "u", "m">>,
                                   <<"h", "i", "g", "h">>}>> >>)
  \o
  Flatten([i \in 1..Len(tc.Tags) |->
    FirstFailure("Tags", i - 1, "",
      << <<"required", tc.Tags[i] # <<>> >>,
         <<"max", Len(tc.Tags[i]) <= 255>> >>)])
  \o
  Flatten([i \in 1..Len(tc.Requirement) |->
    validateRequirement(tc.Requirement[i], "Requirement", -1)])
  \o
  Flatten([i \in 1..Len(tc.Files) |-> validateFile(tc.Files[i], "Files", i - 1)])
  \o
  Flatten([i \in 1..Len(tc.Links) |-> validateLink(tc.Links[i], "Links", i - 1)])

-----------------------------------------------------------------------------
(* The accumulator. An engine q is its three fields; folderTCaseMap is a   *)
(* function from the folder paths added so far to their records in order.  *)

\* the engine NewQASphereCSV returns
NewQASphereCSV ==
  [folderTCaseMap |-> [k \in {} |-> <<>>], numTCases |-> 0, maxSteps |-> 0]

\* the records held under a key (a missing key reads as the nil slice)
TCasesOf(m, k) == IF k \in DOMAIN m THEN m[k] ELSE <<>>

\* addTCase that sets the step maximum to the steps of the record last added
addTCaseLastSteps(q, tc) ==
  LET folderPath == Join(tc.Folder, <<"/">>)
  IN [folderTCaseMap |->
        [k \in DOMAIN q.folderTCaseMap \cup {folderPath} |->
           IF k = folderPath
           THEN Append(TCasesOf(q.folderTCaseMap, folderPath), tc)
           ELSE q.folderTCaseMap[k]],
      numTCases |-> q.numTCases + 1,
      maxSteps |-> Len(tc.Steps)]

\* addTCase that validates its argument and drops a record that fails
addTCaseChecked(q, tc) ==
  IF validateStruct(tc) # <<>> THEN q
  ELSE LET folderPath == Join(tc.Folder, <<"/">>)
       IN [folderTCaseMap |->
             [k \in DOMAIN q.folderTCaseMap \cup {folderPath} |->
                IF k = folderPath
                THEN Append(TCasesOf(q.folderTCaseMap, folderPath), tc)
                ELSE q.folderTCaseMap[k]],
           numTCases |-> q.numTCases + 1,
           maxSteps |-> IF Len(tc.Steps) > q.maxSteps THEN Len(tc.Steps)
                        ELSE q.maxSteps]

\* QASphereCSV.addTCase: no check of the record, no result
addTCase(q, tc) ==
  LET folderPath == Join(tc.Folder, <<"/">>)
  IN [folderTCaseMap |->
        [k \in DOMAIN q.folderTCaseMap \cup {folderPath} |->
           IF k = folderPath
           THEN Append(TCasesOf(q.folderTCaseMap, folderPath), tc)
           ELSE q.folderTCaseMap[k]],
      numTCases |-> q.numTCases + 1,
      maxSteps |-> IF Len(tc.Steps) > q.maxSteps THEN Len(tc.Steps) ELSE q.maxSteps]

\* the second loop of AddTestCases run from the last record to the first
RECURSIVE addTCasesBackwards(_, _)
addTCasesBackwards(q, tcs) ==
  IF tcs = <<>> THEN q ELSE addTCase(addTCasesBackwards(q, Tail(tcs)), Head(tcs))

\* the second loop of AddTestCases: addTCase for every record, in order
RECURSIVE addTCases(_, _)
addTCases(q, tcs) ==
  IF tcs = <<>> THEN q ELSE addTCases(addTCase(q, Head(tcs)), Tail(tcs))

\* a nil error
Nil == [msg |-> "nil", cause |-> <<>>]

\* errors.Wrap(cause, msg)
Wrap(cause, msg) == [msg |-> msg, cause |-> cause]

\* errors.Wrapf(cause, format, arg), before the text is formatted
Wrapf(cause, format, arg) == [format |-> format, arg |-> arg, cause |-> cause]

-----------------------------------------------------------------------------
(* The export: header, rows, cell formats, CSV text.                       *)

staticColumns ==
  << <<"F", "o", "l", "d", "e", "r">>,
     <<"N", "a", "m", "e">>,
     <<"L", "e", "g", "a", "c", "y", " ", "I", "D">>,
     <<"D", "r", "a", "f", "t">>,
     <<"P", "r", "i", "o", "r", "i", "t", "y">>,
     <<"T", "a", "g", "s">>,
     <<"R", "e", "q", "u", "i", "r", "e", "m", "e", "n", "t", "s">>,
     <<"L", "i", "n", "k", "s">>,
     <<"F", "i", "l", "e", "s">>,
     <<"P", "r", "e", "c", "o", "n", "d", "i", "t", "i", "o", "n", "s">> >>

\* the orders in which ranging over a map of these keys can visit them
MapOrders(keys) ==
  {o \in [1..Cardinality(keys) -> keys] :
     \A i, j \in 1..Cardinality(keys) : i # j => o[i] # o[j]}

\* slices.Sort on strings: ascending in Go's string order
RECURSIVE SortInsert(_, _)
SortInsert(x, sorted) ==
  IF sorted = <<>> THEN <<x>>
  ELSE IF StrLess(x, Head(sorted)) THEN <<x>> \o sorted
  ELSE <<Head(sorted)>> \o SortInsert(x, Tail(sorted))

\* Sort with the comparison reversed: descending
RECURSIVE SortDescending(_)
SortDescending(xs) ==
  IF xs = <<>> THEN <<>>
  ELSE LET rest == SortDescending(Tail(xs))
           larger == SelectSeq(rest, LAMBDA y : StrLess(Head(xs), y))
           others == SelectSeq(rest, LAMBDA y : ~StrLess(Head(xs), y))
       IN larger \o <<Head(xs)>> \o others

RECURSIVE Sort(_)
Sort(xs) == IF xs = <<>> THEN <<>> ELSE SortInsert(Head(xs), Sort(Tail(xs)))

\* getFolders without the sort
getFoldersUnsorted(order) == order

\* QASphereCSV.getFolders, for the order in which the map was ranged over
getFolders(order) == Sort(order)

\* fmt.Sprintf("[%s](%s)", title, url)
BracketLink(title, url) == <<"[">> \o title \o <<"]", "(">> \o url \o <<")">>

\* encoding/json's text of a string: quoted, with " \ < > & escaped
JSONChar(c) ==
  IF c = "\"" THEN <<"\\", "\"">>
  ELSE IF c = "\\" THEN <<"\\", "\\">>
  ELSE IF c = "<" THEN <<"\\", "u", "0", "0", "3", "c">>
  ELSE IF c = ">" THEN <<"\\", "u", "0", "0", "3", "e">>
  ELSE IF c = "&" THEN <<"\\", "u", "0", "0", "2", "6">>
  ELSE IF c = "\n" THEN <<"\\", "n">>
  ELSE IF c = "\r" THEN <<"\\", "r">>
  ELSE <<c>>

JSONString(s) == <<"\"">> \o Flatten([i \in 1..Len(s) |-> JSONChar(s[i])]) \o <<"\"">>

\* the decimal text of an int64
FormatInt(n) == IF n < 0 THEN <<"-">> \o Itoa(0 - n) ELSE Itoa(n)

\* json.Marshal of one File by its json tags: id and url are omitempty
JSONFile(f) ==
  <<"{">> \o JSONString(<<"f", "i", "l", "e", "_", "n", "a", "m", "e">>) \o <<":">>
          \o JSONString(f.Name)
  \o (IF f.ID = <<>> THEN <<>>
      ELSE <<",">> \o JSONString(<<"i", "d">>) \o <<":">> \o JSONString(f.ID))
  \o (IF f.URL = <<>> THEN <<>>
      ELSE <<",">> \o JSONString(<<"u", "r", "l">>) \o <<":">> \o JSONString(f.URL))
  \o <<",">> \o JSONString(<<"m", "i", "m", "e", "_", "t", "y", "p", "e">>) \o <<":">>
          \o JSONString(f.MimeType)
  \o <<",">> \o JSONString(<<"s", "i", "z", "e">>) \o <<":">> \o FormatInt(f.Size)
  \o <<"}">>

\* json.Marshal(tc.Files)
JSONFiles(files) ==
  <<"[">> \o Join([i \in 1..Len(files) |-> JSONFile(files[i])], <<",">>) \o <<"]">>

\* HeaderRow that numbers the steps by the loop index, from 0
HeaderRowFromZero(max) ==
  staticColumns
  \o Flatten([i \in 1..max |->
       << <<"S", "t", "e", "p", " ">> \o Itoa(i - 1),
          <<"E", "x", "p", "e", "c", "t", "e", "d", " ">> \o Itoa(i - 1) >>])

\* the header row for a step maximum
HeaderRow(max) ==
  staticColumns
  \o Flatten([i \in 1..max |->
       << <<"S", "t", "e", "p", " ">> \o Itoa(i),
          <<"E", "x", "p", "e", "c", "t", "e", "d", " ">> \o Itoa(i) >>])

\* DataRow without the padding: the record's own steps only
DataRowUnpadded(f, tc, max) ==
  << f,
     tc.Title,
     tc.LegacyID,
     FormatBool(tc.Draft),
     tc.Priority,
     Join(tc.Tags, <<",">>),
     IF tc.Requirement # <<>>
     THEN BracketLink(tc.Requirement[1].Title, tc.Requirement[1].URL) ELSE <<>>,
     Join([i \in 1..Len(tc.Links) |-> BracketLink(tc.Links[i].Title, tc.Links[i].URL)],
          <<",">>),
     IF Len(tc.Files) > 0 THEN JSONFiles(tc.Files) ELSE <<>>,
     tc.Preconditions >>
  \o Flatten([i \in 1..Len(tc.Steps) |->
       <<tc.Steps[i].Action, tc.Steps[i].Expected>>])

\* the row of one record of folder f, padded to the step maximum
DataRow(f, tc, max) ==
  << f,
     tc.Title,
     tc.LegacyID,
     FormatBool(tc.Draft),
     tc.Priority,
     Join(tc.Tags, <<",">>),
     IF tc.Requirement # <<>>
     THEN BracketLink(tc.Requirement[1].Title, tc.Requirement[1].URL) ELSE <<>>,
     Join([i \in 1..Len(tc.Links) |-> BracketLink(tc.Links[i].Title, tc.Links[i].URL)],
          <<",">>),
     IF Len(tc.Files) > 0 THEN JSONFiles(tc.Files) ELSE <<>>,
     tc.Preconditions >>
  \o Flatten([i \in 1..max |->
       IF i <= Len(tc.Steps)
       THEN <<tc.Steps[i].Action, tc.Steps[i].Expected>>
       ELSE << <<>>, <<>> >>])

\* QASphereCSV.getCSVRows, given what getFolders returned
getCSVRows(q, folders) ==
  <<HeaderRow(q.maxSteps)>>
  \o Flatten([fi \in 1..Len(folders) |->
       [ti \in 1..Len(q.folderTCaseMap[folders[fi]]) |->
          DataRow(folders[fi], q.folderTCaseMap[folders[fi]][ti], q.maxSteps)]])

\* csv.Writer.fieldNeedsQuotes with the comma delimiter
fieldNeedsQuotes(field) ==
  IF field = <<>> THEN FALSE
  ELSE IF field = <<"\\", ".">> THEN TRUE
  ELSE IF Contains(field, {",", "\"", "\r", "\n"}) THEN TRUE
  ELSE Head(field) \in {" ", "\n", "\r"}

\* csv.Writer's text of one field: as is, or quoted with every " doubled
CSVField(field) ==
  IF ~fieldNeedsQuotes(field) THEN field
  ELSE <<"\"">>
       \o Flatten([i \in 1..Len(field) |->
            IF field[i] = "\"" THEN <<"\"", "\"">> ELSE <<field[i]>>])
       \o <<"\"">>

\* WriteAll of a csv.Writer with UseCRLF set
writeCSVUseCRLF(grid) ==
  Flatten([r \in 1..Len(grid) |->
    Join([c \in 1..Len(grid[r]) |-> CSVField(grid[r][c])], <<",">>) \o <<"\r", "\n">>])

\* csv.Writer.WriteAll: each record comma-joined and ended by a line feed
writeCSV(grid) ==
  Flatten([r \in 1..Len(grid) |->
    Join([c \in 1..Len(grid[r]) |-> CSVField(grid[r][c])], <<",">>) \o <<"\n">>])

-----------------------------------------------------------------------------
(* Test cases submitted by callers.                                        *)

root == <<"r", "o", "o", "t">>
child == <<"c", "h", "i", "l", "d">>
high == <<"h", "i", "g", "h">>
medium == <<"m", "e", "d", "i", "u", "m">>
low == <<"l", "o", "w">>
httpReq1 == <<"h", "t", "t", "p", ":", "/", "/", "r", "e", "q", "1">>
httpFile1 == <<"h", "t", "t", "p", ":", "/", "/", "f", "i", "l", "e", "1">>
httpLink1 == <<"h", "t", "t", "p", ":", "/", "/", "l", "i", "n", "k", "1">>
ftpLink1 == <<"f", "t", "p", ":", "/", "/", "l", "i", "n", "k", "1">>
fileName == <<"f", ".", "c", "s", "v">>
textCsv == <<"t", "e", "x", "t", "/", "c", "s", "v">>

\* a TestCase literal that sets Title, Folder and Priority only
TestCase(title, folder, priority) ==
  [Title |-> title, LegacyID |-> <<>>, Folder |-> folder, Priority |-> priority,
   Tags |-> <<>>, Preconditions |-> <<>>, Steps |-> <<>>, Requirement |-> <<>>,
   Files |-> <<>>, Links |-> <<>>, Draft |-> FALSE]

Step(action, expected) == [Action |-> action, Expected |-> expected]

File(name, id, url) ==
  [Name |-> name, ID |-> id, URL |-> url, MimeType |-> textCsv, Size |-> 10]

\* Title "T1", Folder ["root"], Priority "high", nothing else
tcMinimal == TestCase(<<"T", "1">>, <<root>>, high)

\* same folder as tcMinimal, one step with no expectation, a draft
tcPartial ==
  [TestCase(<<"T", "2">>, <<root>>, low) EXCEPT
     !.Steps = <<Step(<<"a", "1">>, <<>>)>>,
     !.Requirement = <<[Title |-> <<>>, URL |-> httpReq1]>>,
     !.Draft = TRUE]

\* every field set, two steps, folder root/child
tcAllFields ==
  [TestCase(<<"T", "3">>, <<root, child>>, high) EXCEPT
     !.LegacyID = <<"L", "7">>,
     !.Tags = << <<"t", "1">>, <<"t", "\"", "2">> >>,
     !.Preconditions = <<"p", "r", "e">>,
     !.Steps = <<Step(<<"a", "1">>, <<"e", "1">>), Step(<<>>, <<"e", "2">>)>>,
     !.Requirement = <<[Title |-> <<"r", "1">>, URL |-> httpReq1]>>,
     !.Files = <<File(fileName, <<>>, httpFile1), File(fileName, <<"i", "d">>, <<>>)>>,
     !.Links = <<[Title |-> <<"l", "1">>, URL |-> httpLink1]>>]

\* a one-segment folder whose path sorts between "root" and "root/child"
tcDash == TestCase(<<"T", "4">>, << root \o <<"-">> >>, medium)

\* rejected: no title (and more steps than any valid record has)
tcNoTitle ==
  [TestCase(<<>>, <<root>>, high) EXCEPT
     !.Steps = <<Step(<<"x">>, <<>>), Step(<<"y">>, <<>>), Step(<<"z">>, <<>>)>>]

\* rejected: a folder segment with a slash, and a link that is not http(s)
tcSlash ==
  [TestCase(<<"T", "6">>, << root \o <<"/">> \o child >>, high) EXCEPT
     !.Links = <<[Title |-> <<"l", "1">>, URL |-> ftpLink1]>>]

ValidTCs == {tcMinimal, tcPartial, tcAllFields, tcDash}

TCs == ValidTCs \cup {tcNoTitle, tcSlash}

\* The records of the validation-rule exploration: failureTestCases of the
\* tests, the other ways of breaking each tag, and records on the limits.
base == TestCase(<<"T", "9">>, <<root>>, high)

RejectedTCs ==
  { [base EXCEPT !.Title = <<>>],
    [base EXCEPT !.Title = Rep("t", 256)],
    [base EXCEPT !.LegacyID = Rep("i", 256)],
    [base EXCEPT !.Folder = <<>>],
    [base EXCEPT !.Folder = << root \o <<"/">> \o child >>],
    [base EXCEPT !.Folder = <<root, <<>> >>],
    [base EXCEPT !.Folder = <<root, Rep("f", 128)>>],
    [base EXCEPT !.Priority = <<"v", "e", "r", "y", " ", "h", "i", "g", "h">>],
    [base EXCEPT !.Priority = <<>>],
    [base EXCEPT !.Priority = <<"H", "I", "G", "H">>],
    [base EXCEPT !.Tags = << <<>> >>],
    [base EXCEPT !.Tags = << <<"t", "1">>, Rep("g", 256) >>],
    [base EXCEPT !.Requirement = <<[Title |-> <<>>, URL |-> <<>>]>>],
    [base EXCEPT !.Requirement = <<[Title |-> <<>>, URL |-> ftpLink1]>>],
    [base EXCEPT !.Requirement = <<[Title |-> <<"r", "1">>, URL |-> <<"/", "r", "e", "q", "1">>]>>],
    [base EXCEPT !.Links = <<[Title |-> <<>>, URL |-> <<>>]>>],
    [base EXCEPT !.Links = <<[Title |-> <<"l", "1">>, URL |-> <<>>]>>],
    [base EXCEPT !.Links = <<[Title |-> <<>>, URL |-> httpLink1]>>],
    [base EXCEPT !.Links = <<[Title |-> <<"l", "1">>, URL |-> httpLink1],
                             [Title |-> <<"l", "2">>, URL |-> ftpLink1]>>],
    [base EXCEPT !.Links = <<[Title |-> <<"l", "1">>, URL |-> <<"h", "t", "t", "p", ":", "/", "/">>]>>],
    [base EXCEPT !.Files = <<File(<<>>, <<>>, httpFile1)>>],
    [base EXCEPT !.Files = <<File(fileName, <<>>, <<>>)>>],
    [base EXCEPT !.Files = <<File(fileName, <<>>, ftpLink1)>>],
    [base EXCEPT !.Files = <<File(fileName, <<"i", "d">>, <<"/", "r", "e", "q", "1">>)>>] }

\* accepted: every length on its limit
tcOnLimits ==
  [TestCase(Rep("t", 255), <<root, Rep("f", 127)>>, low) EXCEPT
     !.LegacyID = Rep("i", 255),
     !.Tags = <<Rep("g", 255)>>]

\* accepted: a requirement with a title only, a file with an ID only, an
\* upper-case https URL
tcOptional ==
  [TestCase(<<"T", "8">>, <<child>>, medium) EXCEPT
     !.Requirement = <<[Title |-> <<"r", "1">>, URL |-> <<>>]>>,
     !.Files = <<File(fileName, <<"i", "d">>, <<>>)>>,
     !.Links = <<[Title |-> <<"l", "1">>, URL |-> <<"H", "T", "T", "P", "S", ":", "/", "/", "L", "i", "n", "k", "1", "/", "a">>]>>]

RuleTCs == RejectedTCs \cup {tcMinimal, tcAllFields, tcOnLimits, tcOptional}

\* QASphereCSV.validateTestCase: the record's field errors, <<>> for nil.
\* Validation reads the record alone, so it is tabulated once per record.
Validation == [tc \in TCs \cup RuleTCs |-> validateStruct(tc)]

validateTestCase(tc) == Validation[tc]

\* the first loop of AddTestCases leaving at the first failing record
batchErrorsFirstOnly(tcs) ==
  LET failing == {i \in 1..Len(tcs) : validateTestCase(tcs[i]) # <<>>}
      first == CHOOSE i \in failing : \A j \in failing : i <= j
  IN IF failing = {} THEN <<>>
     ELSE <<Wrapf(validateTestCase(tcs[first]), "test case %d", first - 1)>>

\* the first loop of AddTestCases: one wrapped error per failing record,
\* appended in batch order, tagged with the loop index
batchErrors(tcs) ==
  Flatten([i \in 1..Len(tcs) |->
    LET retErr == validateTestCase(tcs[i])
    IN IF retErr # <<>> THEN <<Wrapf(retErr, "test case %d", i - 1)>> ELSE <<>>])

\* the batches a caller passes to AddTestCases
RECURSIVE SeqsUpTo(_, _)
SeqsUpTo(S, n) ==
  IF n = 0 THEN {<<>>}
  ELSE LET shorter == SeqsUpTo(S, n - 1)
       IN shorter \cup {Append(b, x) : b \in shorter, x \in S}

Batches == SeqsUpTo(TCs, MaxBatch)

\* the batches of the validation-rule exploration: a record alone, and
\* before and after a record that passes
RuleBatches(tc) == {<<tc>>, <<tcMinimal, tc>>, <<tc, tcMinimal>>}

-----------------------------------------------------------------------------
(* The engine as a state machine. call is the operation last called with   *)
(* its arguments, err the error it returned, rows the grid the last export *)
(* built and out the text it returned. accepted is a history variable: the *)
(* records handed to addTCase so far, in order. file is the file that      *)
(* WriteCSVToFile is called with.                                          *)

q == [folderTCaseMap |-> folderTCaseMap, numTCases |-> numTCases, maxSteps |-> maxSteps]

Set(r) ==
  /\ folderTCaseMap' = r.folderTCaseMap
  /\ numTCases' = r.numTCases
  /\ maxSteps' = r.maxSteps

\* the file system before the first call: no file of that name
NoFile == [exists |-> FALSE, data |-> <<>>]

Init ==
  /\ folderTCaseMap = NewQASphereCSV.folderTCaseMap
  /\ numTCases = NewQASphereCSV.numTCases
  /\ maxSteps = NewQASphereCSV.maxSteps
  /\ call = [op |-> "NewQASphereCSV", tcs |-> <<>>]
  /\ err = Nil
  /\ rows = <<>>
  /\ out = <<>>
  /\ accepted = <<>>
  /\ file = NoFile

AddTestCase(tc) ==
  LET retErr == validateTestCase(tc)
  IN /\ call' = [op |-> "AddTestCase", tcs |-> <<tc>>]
     /\ IF retErr # <<>>
        THEN /\ err' = Wrap(retErr, "test case validation")
             /\ UNCHANGED <<acc, accepted>>
        ELSE /\ Set(addTCase(q, tc))
             /\ accepted' = Append(accepted, tc)
             /\ err' = Nil
     /\ rows' = <<>>
     /\ out' = <<>>
     /\ UNCHANGED file

\* AddTestCases that validates and commits record by record: the records
\* that pass are stored although the call fails
AddTestCasesPerRecord(tcs) ==
  LET passing == SelectSeq(tcs, LAMBDA tc : validateTestCase(tc) = <<>>)
  IN /\ call' = [op |-> "AddTestCases", tcs |-> tcs]
     /\ Set(addTCases(q, passing))
     /\ accepted' = accepted \o passing
     /\ err' = IF batchErrors(tcs) # <<>> THEN Wrap(batchErrors(tcs), "validation")
               ELSE Nil
     /\ rows' = <<>>
     /\ out' = <<>>
     /\ UNCHANGED file

AddTestCases(tcs) ==
  LET errs == batchErrors(tcs)
  IN /\ call' = [op |-> "AddTestCases", tcs |-> tcs]
     /\ IF errs # <<>>
        THEN /\ err' = Wrap(errs, "validation")
             /\ UNCHANGED <<acc, accepted>>
        ELSE /\ Set(addTCases(q, tcs))
             /\ accepted' = accepted \o tcs
             /\ err' = Nil
     /\ rows' = <<>>
     /\ out' = <<>>
     /\ UNCHANGED file

GenerateCSV ==
  \E order \in MapOrders(DOMAIN folderTCaseMap) :
    /\ call' = [op |-> "GenerateCSV", tcs |-> <<>>]
    /\ rows' = getCSVRows(q, getFolders(order))
    /\ out' = writeCSV(rows')
    /\ err' = Nil
    /\ UNCHANGED <<acc, accepted, file>>

\* the error of a failing system call
PathError == <<"os.PathError">>

\* os.Create either fails, and the file is left as it was, or creates or
\* truncates the file. writeCSV then writes the text to it: the device takes
\* all of it, or fails having taken none or only the first half, which stays
\* in the file.
WriteCSVToFile ==
  /\ call' = [op |-> "WriteCSVToFile", tcs |-> <<>>]
  /\ \/ /\ err' = Wrap(PathError, "create csv")
        /\ rows' = <<>>
        /\ UNCHANGED file
     \/ \E order \in MapOrders(DOMAIN folderTCaseMap) :
          \E grid \in {getCSVRows(q, getFolders(order))} :
            \E text \in {writeCSV(grid)} :
              \E taken \in {0, Len(text) \div 2, Len(text)} :
                /\ rows' = grid
                /\ file' = [exists |-> TRUE, data |-> SubSeq(text, 1, taken)]
                /\ err' = IF taken = Len(text) THEN Nil
                          ELSE Wrap(PathError, "write csv")
  /\ out' = <<>>
  /\ UNCHANGED <<acc, accepted>>

\* addTCase called on its own, as code of the package can call it
CallAddTCase(tc) ==
  /\ call' = [op |-> "addTCase", tcs |-> <<tc>>]
  /\ Set(addTCase(q, tc))
  /\ accepted' = Append(accepted, tc)
  /\ err' = Nil
  /\ rows' = <<>>
  /\ out' = <<>>
  /\ UNCHANGED file

\* the records of a batch that pass validation
NumValid(tcs) == Cardinality({i \in 1..Len(tcs) : validateTestCase(tcs[i]) = <<>>})

\* Callers of the exported API. A call that would store records is explored
\* while the engine holds at most MaxTCases; a call that fails always is.
Next ==
  \/ \E tc \in TCs :
       /\ validateTestCase(tc) = <<>> => numTCases < MaxTCases
       /\ AddTestCase(tc)
  \/ \E tcs \in Batches :
       /\ NumValid(tcs) = Len(tcs) => numTCases + Len(tcs) <= MaxTCases
       /\ AddTestCases(tcs)
  \/ GenerateCSV

Spec == Init /\ [][Next]_vars

\* Callers that submit the records of the validation-rule exploration.
NextRules ==
  \/ \E tc \in RuleTCs :
       /\ validateTestCase(tc) = <<>> => numTCases < MaxHeld
       /\ AddTestCase(tc)
  \/ \E tc \in RuleTCs : \E tcs \in RuleBatches(tc) :
       /\ NumValid(tcs) = Len(tcs) => numTCases + Len(tcs) <= MaxHeld
       /\ AddTestCases(tcs)

SpecRules == Init /\ [][NextRules]_vars

\* Callers inside the package, which can reach addTCase without validation.
NextInternal ==
  \/ \E tc \in TCs :
       /\ numTCases < MaxTCases
       /\ CallAddTCase(tc)
  \/ \E tc \in TCs :
       /\ validateTestCase(tc) = <<>> => numTCases < MaxTCases
       /\ AddTestCase(tc)
  \/ GenerateCSV

SpecInternal == Init /\ [][NextInternal]_vars

\* the records submitted by the callers that export to the file
FileTCs == {tcMinimal, tcPartial, tcAllFields}

\* Callers that submit records that pass, one at a time and in batches, and
\* export to memory and to the file.
NextFile ==
  \/ \E tc \in FileTCs :
       /\ numTCases < MaxStored
       /\ AddTestCase(tc)
  \/ \E tcs \in SeqsUpTo(FileTCs, MaxBatch) :
       /\ numTCases + Len(tcs) <= MaxStored
       /\ AddTestCases(tcs)
  \/ GenerateCSV
  \/ WriteCSVToFile

SpecFile == Init /\ [][NextFile]_vars

-----------------------------------------------------------------------------
(* What the claims speak of.                                               *)

\* the folder path of a record: its segments joined by "/"
FolderPath(tc) == Join(tc.Folder, <<"/">>)

\* the records held in the folder lists
Stored ==
  UNION {{folderTCaseMap[k][i] : i \in 1..Len(folderTCaseMap[k])} :
           k \in DOMAIN folderTCaseMap}

\* the records of a sequence that have the folder path k, in order
RECURSIVE WithPath(_, _)
WithPath(tcs, k) ==
  IF tcs = <<>> THEN <<>>
  ELSE (IF FolderPath(Head(tcs)) = k THEN <<Head(tcs)>> ELSE <<>>)
       \o WithPath(Tail(tcs), k)

\* the largest number of steps of a set of records, 0 for no record
MaxStepsOf(tcs) ==
  IF tcs = {} THEN 0
  ELSE CHOOSE n \in {Len(tc.Steps) : tc \in tcs} :
         \A tc \in tcs : Len(tc.Steps) <= n

\* the number of records in the lists of a set of keys
RECURSIVE HeldUnder(_)
HeldUnder(keys) ==
  IF keys = {} THEN 0
  ELSE LET k == CHOOSE x \in keys : TRUE
       IN Len(folderTCaseMap[k]) + HeldUnder(keys \ {k})

Max(a, b) == IF a < b THEN b ELSE a

Range(seq) == {seq[i] : i \in 1..Len(seq)}

Fails(tc) == validateTestCase(tc) # <<>>

\* the positions (from 1) of the records of a batch that fail validation
FailingAt(tcs) == {i \in 1..Len(tcs) : Fails(tcs[i])}

-----------------------------------------------------------------------------
\* C1: AddTestCases is all-or-nothing. A call with a batch of which some
\* record fails validation returns an error and leaves the map, the record
\* count and the step maximum as they were; a call with a batch of which no
\* record fails returns nil, and every folder list is the list it was
\* followed by the batch's records of that folder in batch order, the count
\* grown by the length of the batch.
C1_AllOrNothing ==
  [][call'.op = "AddTestCases" =>
       IF FailingAt(call'.tcs) # {}
       THEN /\ err' # Nil
            /\ acc' = acc
       ELSE /\ err' = Nil
            /\ numTCases' = numTCases + Len(call'.tcs)
            /\ DOMAIN folderTCaseMap' =
                 DOMAIN folderTCaseMap \cup {FolderPath(tc) : tc \in Range(call'.tcs)}
            /\ \A k \in DOMAIN folderTCaseMap' :
                 folderTCaseMap'[k] =
                   TCasesOf(folderTCaseMap, k) \o WithPath(call'.tcs, k)
            /\ maxSteps' = Max(maxSteps, MaxStepsOf(Range(call'.tcs)))]_vars

\* a failed batch that held a passing record too, on an engine that holds records
C1_Witness ==
  /\ call.op = "AddTestCases"
  /\ err # Nil
  /\ numTCases > 0
  /\ FailingAt(call.tcs) # {}
  /\ FailingAt(call.tcs) # 1..Len(call.tcs)

\* C2: a record that breaks a rule of the rejection set is rejected with an
\* error that names the field of the broken rule, whether it is submitted
\* alone or in a batch, and no record held by the engine breaks a rule.
IsAbsoluteHTTPURL(u) ==
  \E p \in {<<"h", "t", "t", "p", ":", "/", "/">>,
            <<"h", "t", "t", "p", "s", ":", "/", "/">>} :
    /\ HasPrefix(ToLower(u), p)
    /\ Len(u) > Len(p)
    /\ u[Len(p) + 1] \notin {"/", "?", "#"}

BrokenFields(tc) ==
  (IF tc.Title = <<>> \/ Len(tc.Title) > 255 THEN {"Title"} ELSE {})
  \cup
  (IF \/ tc.Folder = <<>>
      \/ \E i \in 1..Len(tc.Folder) :
           \/ tc.Folder[i] = <<>>
           \/ Len(tc.Folder[i]) > 127
           \/ \E j \in 1..Len(tc.Folder[i]) : tc.Folder[i][j] = "/"
   THEN {"Folder"} ELSE {})
  \cup
  (IF tc.Priority \notin {low, medium, high} THEN {"Priority"} ELSE {})
  \cup
  (IF \E i \in 1..Len(tc.Tags) : tc.Tags[i] = <<>> \/ Len(tc.Tags[i]) > 255
   THEN {"Tags"} ELSE {})
  \cup
  (IF \E i \in 1..Len(tc.Requirement) :
        \/ tc.Requirement[i].Title = <<>> /\ tc.Requirement[i].URL = <<>>
        \/ tc.Requirement[i].URL # <<>> /\ ~IsAbsoluteHTTPURL(tc.Requirement[i].URL)
   THEN {"Requirement"} ELSE {})
  \cup
  (IF \E i \in 1..Len(tc.Links) :
        \/ tc.Links[i].Title = <<>>
        \/ tc.Links[i].URL = <<>>
        \/ ~IsAbsoluteHTTPURL(tc.Links[i].URL)
   THEN {"Links"} ELSE {})
  \cup
  (IF \E i \in 1..Len(tc.Files) :
        \/ tc.Files[i].Name = <<>>
        \/ tc.Files[i].ID = <<>> /\ tc.Files[i].URL = <<>>
        \/ tc.Files[i].URL # <<>> /\ ~IsAbsoluteHTTPURL(tc.Files[i].URL)
   THEN {"Files"} ELSE {})

FieldsNamed(fieldErrors) == {fieldErrors[i].field : i \in 1..Len(fieldErrors)}

C2_RejectionSet ==
  /\ call.op = "AddTestCase" /\ BrokenFields(call.tcs[1]) # {} =>
       /\ err.msg = "test case validation"
       /\ BrokenFields(call.tcs[1]) \subseteq FieldsNamed(err.cause)
  /\ call.op = "AddTestCases" =>
       \A i \in 1..Len(call.tcs) :
         BrokenFields(call.tcs[i]) # {} =>
           /\ err.msg = "validation"
           /\ \E e \in Range(err.cause) :
                /\ e.arg = i - 1
                /\ BrokenFields(call.tcs[i]) \subseteq FieldsNamed(e.cause)
  /\ \A tc \in Stored : BrokenFields(tc) = {}

\* a rule-breaking record rejected in a batch, after a passing record, by an
\* engine that holds a record
C2_Witness ==
  /\ call.op = "AddTestCases"
  /\ Len(call.tcs) = 2
  /\ BrokenFields(call.tcs[1]) = {}
  /\ "Links" \in BrokenFields(call.tcs[2])
  /\ err # Nil
  /\ numTCases = 1

\* C3: the grid of an export is rectangular: one header row and one data row
\* per accepted record, every row of 10 + 2*m cells, m the largest number of
\* steps of the records accepted by the time of the export.
C3_Rectangular ==
  call.op = "GenerateCSV" =>
    /\ Len(rows) = 1 + Len(accepted)
    /\ \A r \in 1..Len(rows) : Len(rows[r]) = 10 + 2 * MaxStepsOf(Range(accepted))

\* an export of records with different numbers of steps, none of them zero
C3_Witness ==
  /\ call.op = "GenerateCSV"
  /\ \E tc1, tc2 \in Range(accepted) :
       /\ Len(tc1.Steps) < Len(tc2.Steps)
       /\ Len(tc1.Steps) > 0

\* C4: the data rows of an export are in ascending byte order of their folder
\* path whatever the order of the adds, and the rows of one folder path are
\* in the order in which their records were accepted; "root" rows precede
\* "root/child" rows, and "root-" rows too (byte 45 before byte 47).
TitlesOf(tcs) == [i \in 1..Len(tcs) |-> tcs[i].Title]

\* the Name cells of the data rows whose Folder cell is k, in row order
RECURSIVE NamesUnder(_, _)
NamesUnder(data, k) ==
  IF data = <<>> THEN <<>>
  ELSE (IF Head(data)[1] = k THEN <<Head(data)[2]>> ELSE <<>>)
       \o NamesUnder(Tail(data), k)

C4_RowOrder ==
  call.op = "GenerateCSV" =>
    LET data == Tail(rows)
    IN /\ \A i, j \in 1..Len(data) : i < j => ~StrLess(data[j][1], data[i][1])
       /\ \A tc \in Range(accepted) :
            NamesUnder(data, FolderPath(tc)) = TitlesOf(WithPath(accepted, FolderPath(tc)))
       /\ \A i, j \in 1..Len(data) :
            /\ data[i][1] = root /\ data[j][1] = <<"r", "o", "o", "t", "/", "c", "h", "i", "l", "d">> => i < j
            /\ data[i][1] = <<"r", "o", "o", "t", "-">> /\ data[j][1] = <<"r", "o", "o", "t", "/", "c", "h", "i", "l", "d">> => i < j
            /\ data[i][1] = root /\ data[j][1] = <<"r", "o", "o", "t", "-">> => i < j

\* an export after a "root/child" record was accepted first and a record of
\* a folder path that sorts before it second
C4_Witness ==
  /\ call.op = "GenerateCSV"
  /\ Len(accepted) >= 2
  /\ FolderPath(accepted[1]) = <<"r", "o", "o", "t", "/", "c", "h", "i", "l", "d">>
  /\ FolderPath(accepted[2]) \in {root, <<"r", "o", "o", "t", "-">>}

\* C5: in an export with step maximum m the header is the 10 static columns
\* followed by Step 1, Expected 1, ..., Step m, Expected m; the row of a
\* record with k steps has under Step i and Expected i the Action and the
\* Expected text of its i-th step for i in 1..k, and two empty cells for i in
\* k+1..m.
Digits == <<"1", "2", "3", "4", "5", "6", "7", "8", "9">>

StepColumns(m) ==
  Flatten([i \in 1..m |->
    << <<"S", "t", "e", "p", " ", Digits[i]>>,
       <<"E", "x", "p", "e", "c", "t", "e", "d", " ", Digits[i]>> >>])

StepCells(row, tc, m) ==
  /\ Len(row) = 10 + 2 * m
  /\ \A i \in 1..m :
       IF i <= Len(tc.Steps)
       THEN /\ row[10 + 2 * i - 1] = tc.Steps[i].Action
            /\ row[10 + 2 * i] = tc.Steps[i].Expected
       ELSE /\ row[10 + 2 * i - 1] = <<>>
            /\ row[10 + 2 * i] = <<>>

RowOf(row, tc, m) ==
  /\ row[1] = FolderPath(tc)
  /\ row[2] = tc.Title
  /\ StepCells(row, tc, m)

C5_StepCells ==
  call.op = "GenerateCSV" =>
    LET m == MaxStepsOf(Range(accepted))
    IN /\ m = maxSteps
       /\ rows[1] = staticColumns \o StepColumns(m)
       /\ \A r \in 2..Len(rows) : \E tc \in Range(accepted) : RowOf(rows[r], tc, m)
       /\ \A tc \in Range(accepted) : \E r \in 2..Len(rows) : RowOf(rows[r], tc, m)

\* an export of a record with one step and a record with two
C5_Witness ==
  /\ call.op = "GenerateCSV"
  /\ maxSteps = 2
  /\ \E tc \in Range(accepted) : Len(tc.Steps) = 1

\* C6: a failed AddTestCases returns an error of exactly one entry per
\* failing record, in batch order, each tagged with the record's position
\* counted from 0 and carrying that record's field errors; no entry is for a
\* record that passes.
C6_EveryFailureReported ==
  call.op = "AddTestCases" /\ FailingAt(call.tcs) # {} =>
    /\ err.msg = "validation"
    /\ Len(err.cause) = Cardinality(FailingAt(call.tcs))
    /\ {e.arg : e \in Range(err.cause)} = {i - 1 : i \in FailingAt(call.tcs)}
    /\ \A e \in Range(err.cause) :
         /\ e.format = "test case %d"
         /\ e.cause = validateTestCase(call.tcs[e.arg + 1])
    /\ \A i, j \in 1..Len(err.cause) : i < j => err.cause[i].arg < err.cause[j].arg

\* a failed batch of two records that fail for different reasons
C6_Witness ==
  /\ call.op = "AddTestCases"
  /\ Len(call.tcs) = 2
  /\ FailingAt(call.tcs) = {1, 2}
  /\ call.tcs[1] # call.tcs[2]
  /\ Len(err.cause) = 2

\* C7: an export changes neither the map nor the record count nor the step
\* maximum, and an export that follows an export returns the same text.
C7_ExportReadOnly ==
  [][call'.op = "GenerateCSV" =>
       /\ acc' = acc
       /\ call.op = "GenerateCSV" => out' = out]_vars

\* an export of an engine that holds records of two folder paths or more,
\* which ranging over the map can visit in either order
C7_Witness ==
  /\ call.op = "GenerateCSV"
  /\ Cardinality(DOMAIN folderTCaseMap) >= 2
  /\ Len(rows) >= 3

\* C8: the export of a fresh engine to which the one record Title "T1",
\* Folder ["root"], Priority "high" was added is the header line followed by
\* one line. The claim as written gives the line eleven cells:
\* root,T1,,false,high,,,,,,
headerLine ==
  <<"F", "o", "l", "d", "e", "r", ",", "N", "a", "m", "e", ",", "L", "e",
    "g", "a", "c", "y", " ", "I", "D", ",", "D", "r", "a", "f", "t", ",",
    "P", "r", "i", "o", "r", "i", "t", "y", ",", "T", "a", "g", "s", ",",
    "R", "e", "q", "u", "i", "r", "e", "m", "e", "n", "t", "s", ",", "L",
    "i", "n", "k", "s", ",", "F", "i", "l", "e", "s", ",", "P", "r", "e",
    "c", "o", "n", "d", "i", "t", "i", "o", "n", "s", "\n">>

C8_MinimalRowElevenCells ==
  call.op = "GenerateCSV" /\ accepted = <<tcMinimal>> =>
    out = headerLine \o
          <<"r", "o", "o", "t", ",", "T", "1", ",", ",", "f", "a", "l",
            "s", "e", ",", "h", "i", "g", "h", ",", ",", ",", ",", ",",
            ",", "\n">>

\* C8 as amended: the line has the ten cells of the static columns, the last
\* five of them empty, and no step cells: root,T1,,false,high,,,,,
C8_MinimalRowTenCells ==
  call.op = "GenerateCSV" /\ accepted = <<tcMinimal>> =>
    /\ Len(rows) = 2
    /\ Len(rows[2]) = 10
    /\ out = headerLine \o
             <<"r", "o", "o", "t", ",", "T", "1", ",", ",", "f", "a", "l",
               "s", "e", ",", "h", "i", "g", "h", ",", ",", ",", ",", ",",
               "\n">>

C8_Witness ==
  /\ call.op = "GenerateCSV"
  /\ accepted = <<tcMinimal>>
  /\ maxSteps = 0

\* C9: the record count is the number of records in the folder lists, the
\* step maximum is the largest number of steps of a held record (0 when none
\* is held), and every record is held under its folder segments joined by "/".
C9_Aggregates ==
  /\ numTCases = HeldUnder(DOMAIN folderTCaseMap)
  /\ maxSteps = MaxStepsOf(Stored)
  /\ \A k \in DOMAIN folderTCaseMap :
       \A i \in 1..Len(folderTCaseMap[k]) :
         Join(folderTCaseMap[k][i].Folder, <<"/">>) = k

\* two folder paths held, the record accepted last with fewer steps than the
\* maximum, an export made
C9_Witness ==
  /\ call.op = "GenerateCSV"
  /\ Cardinality(DOMAIN folderTCaseMap) >= 2
  /\ Len(accepted[Len(accepted)].Steps) < maxSteps

\* C10: addTCase, called with a record that fails validation, signals an
\* error and changes neither the map nor the counters.
C10_RejectsInvalid ==
  [][call'.op = "addTCase" /\ Fails(call'.tcs[1]) =>
       /\ err' # Nil
       /\ acc' = acc]_vars

\* C10 as amended: addTCase checks nothing and signals nothing. Called with
\* any record, one that fails validation included, it appends the record to
\* the list of its folder path, adds one to the record count and raises the
\* step maximum to the record's number of steps.
C10_StoresUnchecked ==
  [][call'.op = "addTCase" =>
       LET tc == call'.tcs[1]
       IN /\ err' = Nil
          /\ numTCases' = numTCases + 1
          /\ folderTCaseMap'[FolderPath(tc)] =
               Append(TCasesOf(folderTCaseMap, FolderPath(tc)), tc)
          /\ maxSteps' = Max(maxSteps, Len(tc.Steps))]_vars

\* addTCase was called with a record that fails validation, and holds it
C10_Witness ==
  /\ call.op = "addTCase"
  /\ Fails(call.tcs[1])
  /\ call.tcs[1] \in Stored

\* the engine that AddTestCase(tc) leaves, called on engine e
AfterAddTestCase(e, tc) ==
  IF validateTestCase(tc) # <<>> THEN e ELSE addTCase(e, tc)

\* the engine that AddTestCase(r1), ..., AddTestCase(rn) leave, called in
\* that order on engine e
RECURSIVE OneAtATime(_, _)
OneAtATime(e, tcs) ==
  IF tcs = <<>> THEN e
  ELSE AfterAddTestCase(OneAtATime(e, SubSeq(tcs, 1, Len(tcs) - 1)), tcs[Len(tcs)])

\* the texts an export of engine e can give, one for every order in which
\* the map can be ranged over
ExportsOf(e) ==
  {writeCSV(getCSVRows(e, getFolders(order))) :
     order \in MapOrders(DOMAIN e.folderTCaseMap)}

\* C11: for records that pass validation, submitting in batches and one at a
\* time are the same. After any calls of AddTestCase and AddTestCases, the
\* engine holds the folder lists, the record count and the step maximum that
\* a new engine holds after AddTestCase for each stored record, one call per
\* record in the order of submission; the text GenerateCSV returns and the
\* text WriteCSVToFile has written when it returns no error are the text
\* exported from that engine.
C11_BatchAsOneAtATime ==
  LET one == OneAtATime(NewQASphereCSV, accepted)
  IN /\ q = one
     /\ call.op = "GenerateCSV" => ExportsOf(one) = {out}
     /\ call.op = "WriteCSVToFile" /\ err = Nil =>
          /\ file.exists
          /\ ExportsOf(one) = {file.data}

\* a batch of two records of one folder path, with different numbers of
\* steps, was stored by an engine that held a record and had written the file
C11_Witness ==
  /\ call.op = "AddTestCases"
  /\ err = Nil
  /\ Len(call.tcs) = 2
  /\ FolderPath(call.tcs[1]) = FolderPath(call.tcs[2])
  /\ Len(call.tcs[1].Steps) # Len(call.tcs[2].Steps)
  /\ Len(accepted) > 2
  /\ file.exists

====
